---- MODULE Spec2Model ----
(***************************************************************************)
(* Model of the FlappyKiroGame simulation engine (src/frontend/game.js).   *)
(*                                                                         *)
(* Numbers: the geometry of the field and of the walls and the wall        *)
(* speeds are whole numbers of TENTHS of a pixel (300 px is 3000); on      *)
(* these JavaScript's arithmetic is exact.  The avatar's y and velocity    *)
(* are IEEE-754 binary64 numbers that the code adds with rounding          *)
(* (gravity 0.3 and 0.4 are not binary fractions).  Such a number is the   *)
(* record [t, e] that stands for t/10 + e/(10 * 2^54): t is the number of  *)
(* tenths the decimal arithmetic would give and e the distance of the      *)
(* binary64 value from it, so that additions and comparisons give exactly  *)
(* what the code computes (Round, DAdd, DLess below).                      *)
(*                                                                         *)
(* Math.random() is a value k / RandDen, k in 0 .. RandDen-1.              *)
(*                                                                         *)
(* The environment (player, application) is bounded: while a run is        *)
(* running it delivers jump() and start() only every JumpEvery ticks, the  *)
(* first time right after the tick that start() performs, and              *)
(* setDifficulty() only on ticks that are multiples of DiffEvery, at most  *)
(* MaxDiffChanges times per run; a run is followed for MaxTicks ticks; at  *)
(* most MaxLoops animation-frame callbacks are outstanding, and a run with *)
(* more than one of them is followed for ReentryTicks ticks.               *)
(***************************************************************************)
EXTENDS Integers, Sequences, FiniteSets, TLC

VARIABLES
    ghosty,             \* this.ghosty: [x, y, width, height, velocity]
    walls,              \* this.walls: sequence of wall records
    score,              \* this.score
    gameRunning,        \* this.gameRunning
    gameStartTime,      \* this.gameStartTime: "null" or "set"
    currentDifficulty,  \* this.currentDifficulty
    rafPending,         \* callbacks registered with requestAnimationFrame
    wallIds,            \* history: creation number of each wall in walls
    passedIds,          \* history: creation numbers of walls marked passed
    prunedLog,          \* history: [id, passed] of every wall spliced out
    created,            \* history: walls created since the last reset()
    ticks,              \* history: running update() calls since reset()
    notified,           \* history: what endGame() sent out since reset()
    diffChanges         \* history: setDifficulty() calls since reset()

vars == <<ghosty, walls, score, gameRunning, gameStartTime, currentDifficulty,
          rafPending, wallIds, passedIds, prunedLog, created, ticks,
          notified, diffChanges>>

----------------------------------------------------------------------------
(* Bounds of the model *)

RandDen == 2
JumpEvery == 31
DiffEvery == 80
MaxDiffChanges == 1
MaxTicks == 250
MaxLoops == 2
ReentryTicks == 20
PilotMargin == 50
PilotTicks == 600
PilotDiffAt == 240
LiveJumpUntil == 200
LiveTicks == 300
ApiTicks == 45
MaxNotified == 4

----------------------------------------------------------------------------
(* Program constants, in tenths of a pixel *)

canvasWidth == 8000
canvasHeight == 6000

Difficulties == {"easy", "medium", "hard"}

(* the number t/10 itself: a length of the field or of a wall *)
Exact(t) == [t |-> t, e |-> 0]

Neg(a) == [t |-> -a.t, e |-> -a.e]

(* a < 0 and a < b, on the values *)
IsNegative(a) == a.t < 0 \/ (a.t = 0 /\ a.e < 0)

DLess(a, b) == a.t < b.t \/ (a.t = b.t /\ a.e < b.e)

Pow2(n) == 2 ^ n

(* 2^n modulo 5 *)
Pow2Mod5(n) == <<1, 2, 4, 3>>[(n % 4) + 1]

(* the spacing of the binary64 numbers around a >= 0, as the exponent u of
   2^u * 2^-54: below 0.5 every multiple of 2^-54 is a binary64 number, from
   0.5 (th = 5 tenths) on the spacing doubles with every power of two *)
RECURSIVE UlpExp(_, _, _)
UlpExp(a, th, u) ==
    IF a.t > th \/ (a.t = th /\ a.e >= 0) THEN UlpExp(a, 2 * th, u + 1) ELSE u

(* round-to-nearest, ties to even, of a >= 0 to the 53 bits of a binary64
   number.  With N = a.t * 2^54 + a.e, a = N / (10 * 2^54), and M = 10 * 2^u
   the spacing in the same unit, R is N mod M and R2 is N mod 2M (the power
   of two is taken modulo 5 so that no number outgrows 32 bits) *)
RoundMagnitude(a) ==
    LET u  == UlpExp(a, 5, 0)
        M  == 5 * Pow2(u + 1)
        R  == (Pow2(u + 1) * (((a.t % 5) * Pow2Mod5(53 - u)) % 5) + a.e) % M
        R2 == (Pow2(u + 2) * (((a.t % 5) * Pow2Mod5(52 - u)) % 5) + a.e) % (2 * M)
        d  == IF 2 * R < M THEN -R
              ELSE IF 2 * R > M THEN M - R
              ELSE IF R2 = R THEN -R ELSE M - R
    IN  [a EXCEPT !.e = @ + d]

(* decimal arithmetic: every sum is kept as it is *)
RoundExact(a) == a

(* the binary64 number nearest to a *)
Round(a) ==
    IF IsNegative(a) THEN Neg(RoundMagnitude(Neg(a))) ELSE RoundMagnitude(a)

(* the binary64 number a decimal literal of t tenths denotes *)
Dbl(t) == Round(Exact(t))

(* the sum of two numbers before it is rounded *)
RealSum(a, b) == [t |-> a.t + b.t, e |-> a.e + b.e]

(* a + b as JavaScript computes it *)
DAdd(a, b) == Round(RealSum(a, b))

difficulties ==
    [easy   |-> [gravity |-> 3, jumpPower |-> -60, wallSpeed |-> 20, wallGap |-> 2000],
     medium |-> [gravity |-> 4, jumpPower |-> -70, wallSpeed |-> 30, wallGap |-> 1600],
     hard   |-> [gravity |-> 5, jumpPower |-> -80, wallSpeed |-> 40, wallGap |-> 1200]]

Rand == 0 .. (RandDen - 1)

----------------------------------------------------------------------------
(* createWall(x) without the 50 px kept free above the gap *)
createWallNoMargin(x, difficulty, r) ==
    LET settings == difficulties[difficulty]
        gapY == (r * (canvasHeight - settings.wallGap - 1000)) \div RandDen
    IN  [x            |-> x,
         topHeight    |-> gapY,
         bottomY      |-> gapY + settings.wallGap,
         bottomHeight |-> canvasHeight - (gapY + settings.wallGap),
         width        |-> 600,
         passed       |-> FALSE]

(* createWall(x) with the gap of the default difficulty, whatever is selected *)
createWallDefaultGap(x, difficulty, r) ==
    LET settings == difficulties["medium"]
        gapY == (r * (canvasHeight - settings.wallGap - 1000)) \div RandDen + 500
    IN  [x            |-> x,
         topHeight    |-> gapY,
         bottomY      |-> gapY + settings.wallGap,
         bottomHeight |-> canvasHeight - (gapY + settings.wallGap),
         width        |-> 600,
         passed       |-> FALSE]

(* createWall(x): r is the numerator of the value Math.random() returned *)

createWall(x, difficulty, r) ==
    LET settings == difficulties[difficulty]
        gapY == (r * (canvasHeight - settings.wallGap - 1000)) \div RandDen + 500
    IN  [x            |-> x,
         topHeight    |-> gapY,
         bottomY      |-> gapY + settings.wallGap,
         bottomHeight |-> canvasHeight - (gapY + settings.wallGap),
         width        |-> 600,
         passed       |-> FALSE]

(* reset(): the avatar record *)
InitialGhosty ==
    [x |-> 1000, y |-> Dbl(3000), width |-> 400, height |-> 400,
     velocity |-> Dbl(0)]

(* seeded walls one field width apart *)
SeedWallsFieldApart(difficulty, rs) ==
    [i \in 1 .. 3 |-> createWall(8000 + (i - 1) * canvasWidth, difficulty, rs[i])]

(* reset(): the three seeded walls, rs the three random numerators *)
SeedWalls(difficulty, rs) ==
    [i \in 1 .. 3 |-> createWall(8000 + (i - 1) * 3000, difficulty, rs[i])]

----------------------------------------------------------------------------
(* The engine state handled by the methods, as one record *)

Engine ==
    [ghosty        |-> ghosty,
     walls         |-> walls,
     score         |-> score,
     gameRunning   |-> gameRunning,
     gameStartTime |-> gameStartTime,
     wallIds       |-> wallIds,
     passedIds     |-> passedIds,
     prunedLog     |-> prunedLog,
     created       |-> created,
     ticks         |-> ticks,
     notified      |-> notified]

(* reset() that leaves the avatar's velocity as it was *)
resetKeepsVelocity(difficulty, rs) ==
    [ghosty        |-> [InitialGhosty EXCEPT !.velocity = ghosty.velocity],
     walls         |-> SeedWalls(difficulty, rs),
     score         |-> 0,
     gameRunning   |-> FALSE,
     gameStartTime |-> "null",
     wallIds       |-> <<1, 2, 3>>,
     passedIds     |-> {},
     prunedLog     |-> {},
     created       |-> 3,
     ticks         |-> 0,
     notified      |-> <<>>]

(* reset(), called by the constructor and by start() *)
reset(difficulty, rs) ==
    [ghosty        |-> InitialGhosty,
     walls         |-> SeedWalls(difficulty, rs),
     score         |-> 0,
     gameRunning   |-> FALSE,
     gameStartTime |-> "null",
     wallIds       |-> <<1, 2, 3>>,
     passedIds     |-> {},
     prunedLog     |-> {},
     created       |-> 3,
     ticks         |-> 0,
     notified      |-> <<>>]

(* jump() with "press to play again": a press while not running starts play *)
jumpRestarts(e, difficulty) ==
    [e EXCEPT !.ghosty.velocity = Dbl(difficulties[difficulty].jumpPower),
              !.gameRunning = TRUE]

(* jump() with the impulse of the default difficulty, whatever is selected *)
jumpDefaultSettings(e, difficulty) ==
    IF e.gameRunning
    THEN [e EXCEPT !.ghosty.velocity = Dbl(difficulties["medium"].jumpPower)]
    ELSE e

(* jump() that adds the impulse to the velocity *)
jumpAdds(e, difficulty) ==
    IF e.gameRunning
    THEN [e EXCEPT !.ghosty.velocity =
                       DAdd(@, Dbl(difficulties[difficulty].jumpPower))]
    ELSE e

(* jump() *)
jump(e, difficulty) ==
    IF e.gameRunning
    THEN [e EXCEPT !.ghosty.velocity = Dbl(difficulties[difficulty].jumpPower)]
    ELSE e

(* the step without gravity: the velocity stays as it is *)
IntegrateNoGravity(g, settings) ==
    [g EXCEPT !.y = DAdd(g.y, g.velocity)]

(* update(), lines 84-85: gravity, then position, each a binary64 addition *)
Integrate(g, settings) ==
    LET v == DAdd(g.velocity, Dbl(settings.gravity))
    IN  [g EXCEPT !.velocity = v, !.y = DAdd(g.y, v)]

(* the pass test without the passed flag *)
WallPassedUnflagged(wall, g) ==
    wall.x + wall.width < g.x

(* update(), line 93: the wall has just been passed *)
WallPassed(wall, g) ==
    ~wall.passed /\ wall.x + wall.width < g.x

(* a wall is dropped once its leading edge is off screen *)
OffScreenLeadingEdge(wall) ==
    wall.x < 0

(* a wall is dropped once it is behind the avatar's leading edge *)
OffScreenBehindAvatar(wall) ==
    wall.x + wall.width < ghosty.x + ghosty.width

(* update(), line 103: the wall is off screen *)
OffScreen(wall) ==
    wall.x + wall.width < 0

(* splice(i) without a count: everything from i on is removed *)
SpliceToEnd(s, i) ==
    SubSeq(s, 1, i - 1)

(* Array.prototype.splice(i, 1) on a sequence, i counted from 1 *)
Splice(s, i) ==
    SubSeq(s, 1, i - 1) \o SubSeq(s, i + 1, Len(s))

(* the loop run from the first index to the last: the wall that follows a
   spliced one takes its index and is skipped in this pass *)
RECURSIVE WallLoopForward(_, _, _, _)
WallLoopForward(i, st, settings, g) ==
    IF i = 0 THEN st
    ELSE
      LET skipped == /\ i >= 2
                     /\ OffScreen([st.walls[i - 1] EXCEPT !.x = @ - settings.wallSpeed])
          moved  == IF skipped THEN st.walls[i]
                    ELSE [st.walls[i] EXCEPT !.x = @ - settings.wallSpeed]
          pass   == ~skipped /\ WallPassed(moved, g)
          wall   == IF pass THEN [moved EXCEPT !.passed = TRUE] ELSE moved
          id     == st.wallIds[i]
          st1    == [st EXCEPT
                       !.walls[i]  = wall,
                       !.score     = IF pass THEN @ + 1 ELSE @,
                       !.passedIds = IF pass THEN @ \cup {id} ELSE @]
          st2    == IF ~skipped /\ OffScreen(wall)
                    THEN [st1 EXCEPT
                            !.walls     = Splice(@, i),
                            !.wallIds   = Splice(@, i),
                            !.prunedLog = @ \cup {[id |-> id, passed |-> wall.passed]}]
                    ELSE st1
      IN  WallLoopForward(i - 1, st2, settings, g)

(* update(), lines 88-106: the loop over the walls, from index i down to 1;
   st holds the fields the loop writes *)
RECURSIVE WallLoop(_, _, _, _)
WallLoop(i, st, settings, g) ==
    IF i = 0 THEN st
    ELSE
      LET moved  == [st.walls[i] EXCEPT !.x = @ - settings.wallSpeed]
          pass   == WallPassed(moved, g)
          wall   == IF pass THEN [moved EXCEPT !.passed = TRUE] ELSE moved
          id     == st.wallIds[i]
          st1    == [st EXCEPT
                       !.walls[i]  = wall,
                       !.score     = IF pass THEN @ + 1 ELSE @,
                       !.passedIds = IF pass THEN @ \cup {id} ELSE @]
          st2    == IF OffScreen(wall)
                    THEN [st1 EXCEPT
                            !.walls     = Splice(@, i),
                            !.wallIds   = Splice(@, i),
                            !.prunedLog = @ \cup {[id |-> id, passed |-> wall.passed]}]
                    ELSE st1
      IN  WallLoop(i - 1, st2, settings, g)

(* a new wall is due once the last one is 200 px inside the field *)
NeedsWallEarly(ws) ==
    Len(ws) > 0 /\ ws[Len(ws)].x < canvasWidth - 2000

(* a new wall is due as soon as the last one is at width - 300 *)
NeedsWallInclusive(ws) ==
    Len(ws) > 0 /\ ws[Len(ws)].x <= canvasWidth - 3000

(* a new wall is due only once the last one is 400 px inside the field *)
NeedsWallLate(ws) ==
    Len(ws) > 0 /\ ws[Len(ws)].x < canvasWidth - 4000

(* update(), lines 109-110: a new wall is due *)
NeedsWall(ws) ==
    Len(ws) > 0 /\ ws[Len(ws)].x < canvasWidth - 3000

(* checkCollisions(), lines 120 and 131: this.ghosty.y + this.ghosty.height,
   the binary64 sum *)
Bottom(g) == DAdd(g.y, Exact(g.height))

(* the ground test alone *)
BoundaryHitGroundOnly(g) ==
    DLess(Exact(canvasHeight), Bottom(g))

(* checkCollisions(), line 120 *)
BoundaryHit(g) ==
    \/ DLess(Exact(canvasHeight), Bottom(g))
    \/ DLess(g.y, Exact(0))

(* the wall test with the upper part of the wall alone *)
WallHitTopOnly(g, ws) ==
    \E i \in 1 .. Len(ws) :
        /\ g.x < ws[i].x + ws[i].width
        /\ g.x + g.width > ws[i].x
        /\ DLess(g.y, Exact(ws[i].topHeight))

(* checkCollisions(), lines 126-136 *)
WallHit(g, ws) ==
    \E i \in 1 .. Len(ws) :
        /\ g.x < ws[i].x + ws[i].width
        /\ g.x + g.width > ws[i].x
        /\ \/ DLess(g.y, Exact(ws[i].topHeight))
           \/ DLess(Exact(ws[i].bottomY), Bottom(g))

(* checkCollisions() that looks at the walls first *)
CollisionReasonWallsFirst(g, ws) ==
    IF WallHit(g, ws) THEN "wall_collision"
    ELSE IF BoundaryHit(g) THEN "boundary_collision"
    ELSE "none"

(* checkCollisions(): the reason handed to endGame(), "none" when it is not called *)
CollisionReason(g, ws) ==
    IF BoundaryHit(g) THEN "boundary_collision"
    ELSE IF WallHit(g, ws) THEN "wall_collision"
    ELSE "none"

(* endGame(), line 141: Date.now() - this.gameStartTime; the reading of the
   clock is not modelled, only what it is measured from *)
Duration(startTime) ==
    IF startTime = "set" THEN "since_start" ELSE "since_epoch"

(* endGame() that writes the telemetry but dispatches no window event *)
NotificationsTelemetryOnly(e, reason, difficulty) ==
    <<[kind |-> "logGameEnd", score |-> e.score, difficulty |-> difficulty,
       duration |-> Duration(e.gameStartTime)],
      [kind |-> "game_over", reason |-> reason, final_score |-> e.score,
       duration_ms |-> Duration(e.gameStartTime)]>>

(* endGame(), lines 143-155: the two telemetry records and the window event,
   in the order they are sent *)
Notifications(e, reason, difficulty) ==
    <<[kind |-> "logGameEnd", score |-> e.score, difficulty |-> difficulty,
       duration |-> Duration(e.gameStartTime)],
      [kind |-> "game_over", reason |-> reason, final_score |-> e.score,
       duration_ms |-> Duration(e.gameStartTime)],
      [kind |-> "gameOver", score |-> e.score, difficulty |-> difficulty]>>

(* endGame() that also clears the score *)
endGameClearsScore(e, reason, difficulty) ==
    [e EXCEPT !.gameRunning = FALSE, !.score = 0,
              !.notified = @ \o Notifications(e, reason, difficulty)]

(* endGame(reason) *)
endGame(e, reason, difficulty) ==
    [e EXCEPT !.gameRunning = FALSE,
              !.notified = @ \o Notifications(e, reason, difficulty)]

(* checkCollisions(): endGame() with the reason found, nothing otherwise *)
checkCollisions(e, difficulty) ==
    LET reason == CollisionReason(e.ghosty, e.walls)
    IN  IF reason # "none" THEN endGame(e, reason, difficulty) ELSE e

(* update() that tests for collisions right after moving the avatar and
   returns before the walls are handled when the game has ended *)
tickChecksBeforeWalls(e, difficulty, r) ==
    LET settings == difficulties[difficulty]
        g        == Integrate(e.ghosty, settings)
        early    == CollisionReason(g, e.walls)
        e0       == [e EXCEPT !.ghosty = g, !.ticks = @ + 1]
        st       == WallLoop(Len(e.walls), e, settings, g)
        add      == NeedsWall(st.walls)
        e1       == [st EXCEPT
                       !.ghosty  = g,
                       !.ticks   = @ + 1,
                       !.walls   = IF add
                                   THEN Append(@, createWall(canvasWidth + 1000, difficulty, r))
                                   ELSE @,
                       !.wallIds = IF add THEN Append(@, st.created + 1) ELSE @,
                       !.created = IF add THEN @ + 1 ELSE @]
    IN  IF early # "none" THEN endGame(e0, early, difficulty) ELSE e1

(* update(), lines 81-115, the part after the guard; r is the numerator of
   the random number createWall draws when a wall is added *)
tick(e, difficulty, r) ==
    LET settings == difficulties[difficulty]
        g        == Integrate(e.ghosty, settings)
        st       == WallLoop(Len(e.walls), e, settings, g)
        add      == NeedsWall(st.walls)
        e1       == [st EXCEPT
                       !.ghosty  = g,
                       !.ticks   = @ + 1,
                       !.walls   = IF add
                                   THEN Append(@, createWall(canvasWidth + 1000, difficulty, r))
                                   ELSE @,
                       !.wallIds = IF add THEN Append(@, st.created + 1) ELSE @,
                       !.created = IF add THEN @ + 1 ELSE @]
    IN  checkCollisions(e1, difficulty)

(* update() without its guard *)
updateUnguarded(e, difficulty, r) ==
    tick(e, difficulty, r)

(* update() *)
update(e, difficulty, r) ==
    IF ~e.gameRunning THEN e ELSE tick(e, difficulty, r)

(* start(), lines 60-62 *)
started(difficulty, rs) ==
    [reset(difficulty, rs) EXCEPT !.gameRunning = TRUE, !.gameStartTime = "set"]

----------------------------------------------------------------------------
(* Actions *)

SetEngine(e) ==
    /\ ghosty' = e.ghosty
    /\ walls' = e.walls
    /\ score' = e.score
    /\ gameRunning' = e.gameRunning
    /\ gameStartTime' = e.gameStartTime
    /\ wallIds' = e.wallIds
    /\ passedIds' = e.passedIds
    /\ prunedLog' = e.prunedLog
    /\ created' = e.created
    /\ ticks' = e.ticks
    /\ notified' = e.notified

Init ==
    \E rs \in [1 .. 3 -> Rand] :
        /\ ghosty = InitialGhosty
        /\ walls = SeedWalls("medium", rs)
        /\ score = 0
        /\ gameRunning = FALSE
        /\ gameStartTime = "null"
        /\ currentDifficulty = "medium"
        /\ rafPending = 0
        /\ wallIds = <<1, 2, 3>>
        /\ passedIds = {}
        /\ prunedLog = {}
        /\ created = 3
        /\ ticks = 0
        /\ notified = <<>>
        /\ diffChanges = 0

(* The environment's bound on a running game: a run driven by one loop is
   followed for MaxTicks ticks, one driven by several for ReentryTicks *)
TickAllowed ==
    gameRunning => ticks < (IF rafPending > 1 THEN ReentryTicks ELSE MaxTicks)

(* The random numerators a call of update() can consume: createWall draws
   one only when a wall is added *)
Draws(e, difficulty) ==
    IF e.gameRunning
       /\ NeedsWall(WallLoop(Len(e.walls), e, difficulties[difficulty], e.ghosty).walls)
    THEN Rand
    ELSE {0}

(* start() up to its return, for each difficulty and each outcome of the
   random draws: reset, run, and the first gameLoop() call, which updates
   once *)
start ==
    [difficulty \in Difficulties |->
        {update(started(difficulty, rs), difficulty, r) :
            rs \in [1 .. 3 -> Rand], r \in Rand}]

(* start(); gameLoop() registers the next frame's callback while the game
   is running *)
Start ==
    /\ rafPending < MaxLoops
    /\ gameRunning => ticks % JumpEvery = 1
    /\ \E e \in start[currentDifficulty] :
         /\ SetEngine(e)
         /\ rafPending' = IF e.gameRunning THEN rafPending + 1 ELSE rafPending
    /\ diffChanges' = 0
    /\ UNCHANGED currentDifficulty

(* jump(), from the keydown handler *)
Jump ==
    /\ gameRunning => ticks % JumpEvery = 1
    /\ SetEngine(jump(Engine, currentDifficulty))
    /\ UNCHANGED <<currentDifficulty, rafPending, diffChanges>>

(* update() called directly *)
Update ==
    /\ TickAllowed
    /\ \E r \in Draws(Engine, currentDifficulty) :
         SetEngine(update(Engine, currentDifficulty, r))
    /\ UNCHANGED <<currentDifficulty, rafPending, diffChanges>>

(* gameLoop(): update, and register the next callback if still running *)
Frame ==
    /\ \E r \in Draws(Engine, currentDifficulty) :
         LET e == update(Engine, currentDifficulty, r)
         IN  /\ SetEngine(e)
             /\ rafPending' = IF e.gameRunning THEN rafPending ELSE rafPending - 1
    /\ UNCHANGED <<currentDifficulty, diffChanges>>

(* gameLoop() run as an animation-frame callback *)
GameLoop ==
    /\ rafPending > 0
    /\ TickAllowed
    /\ Frame

(* setDifficulty(difficulty), for every difficulty other than the active one *)
Select ==
    /\ \E d \in Difficulties \ {currentDifficulty} : currentDifficulty' = d
    /\ diffChanges' = diffChanges + 1
    /\ UNCHANGED <<ghosty, walls, score, gameRunning, gameStartTime, rafPending,
                   wallIds, passedIds, prunedLog, created, ticks, notified>>

(* setDifficulty(difficulty), from the difficulty buttons *)
SetDifficulty ==
    /\ diffChanges < MaxDiffChanges
    /\ gameRunning => ticks % DiffEvery = 0
    /\ Select

Next ==
    \/ Start
    \/ Jump
    \/ Update
    \/ GameLoop
    \/ SetDifficulty

Spec == Init /\ [][Next]_vars

----------------------------------------------------------------------------
(* A second environment: a player who follows the gaps.  Before each tick
   the player presses jump exactly when, without it, the tick would take the
   avatar's lower edge closer than PilotMargin to the lower edge of the gap
   of the nearest wall not yet behind the avatar.  Runs are started only
   from a game that is not running and are followed for PilotTicks ticks;
   the difficulty is changed once before a run and once, in tick
   PilotDiffAt, during it. *)

PilotWants ==
    LET ahead == {i \in 1 .. Len(walls) : walls[i].x + walls[i].width > ghosty.x}
        settings == difficulties[currentDifficulty]
    IN  /\ ahead # {}
        /\ ghosty.velocity # Dbl(settings.jumpPower)
        /\ LET i == CHOOSE i \in ahead : \A j \in ahead : i <= j
           IN  DLess(Exact(walls[i].bottomY - PilotMargin),
                     Bottom(Integrate(ghosty, settings)))

PilotStart ==
    /\ ~gameRunning
    /\ Start

PilotJump ==
    /\ gameRunning
    /\ PilotWants
    /\ SetEngine(jump(Engine, currentDifficulty))
    /\ UNCHANGED <<currentDifficulty, rafPending, diffChanges>>

PilotLoop ==
    /\ rafPending > 0
    /\ gameRunning => (ticks < PilotTicks /\ ~PilotWants)
    /\ Frame

PilotSetDifficulty ==
    /\ diffChanges = 0
    /\ gameRunning => ticks = PilotDiffAt
    /\ Select

NextPilot ==
    \/ PilotStart
    \/ PilotJump
    \/ PilotLoop
    \/ PilotSetDifficulty

SpecPilot == Init /\ [][NextPilot]_vars

----------------------------------------------------------------------------
(* A third environment, for what happens once the player stops pressing:
   jump() is delivered, every JumpEvery ticks, only during the first
   LiveJumpUntil ticks of a run, start() on a running game only right
   after the tick of the start() before it, and setDifficulty() only while
   no run is going on.  The browser runs every
   registered animation-frame callback, hence the fairness of the
   callback's step; a run is followed for LiveTicks ticks. *)

LiveStart ==
    /\ gameRunning => ticks = 1
    /\ Start

LiveJump ==
    /\ gameRunning
    /\ ticks < LiveJumpUntil
    /\ Jump

LiveLoop ==
    /\ rafPending > 0
    /\ gameRunning => ticks < LiveTicks
    /\ Frame

LiveSetDifficulty ==
    /\ ~gameRunning
    /\ SetDifficulty

NextLive ==
    \/ LiveStart
    \/ LiveJump
    \/ LiveLoop
    \/ LiveSetDifficulty

(* A LiveLoop step as it shows in the count of ticks and of registered
   callbacks: on a running game the callback adds a tick, otherwise it only
   leaves the queue.  No other action of NextLive changes the two that way,
   and it is possible exactly when LiveLoop is. *)
LiveFrame ==
    /\ rafPending > 0
    /\ gameRunning => ticks < LiveTicks
    /\ IF gameRunning
       THEN ticks' = ticks + 1 /\ rafPending' \in {rafPending, rafPending - 1}
       ELSE ticks' = ticks /\ rafPending' = rafPending - 1

SpecLive == Init /\ [][NextLive]_vars /\ WF_<<ticks, rafPending>>(LiveFrame)

----------------------------------------------------------------------------
(* A fourth environment: a caller that uses every method of the engine
   object, also the ones the application leaves to the engine itself
   (reset(), endGame(), checkCollisions() and gameLoop() are called by no
   code but the engine's own).  On a running game these calls come, like
   jump(), every JumpEvery ticks; a run is followed for ApiTicks ticks, and
   endGame() is reached from outside only while fewer than MaxNotified
   notifications have been sent since the last reset(). *)

(* the reasons the engine hands to endGame() *)
Reasons == {"boundary_collision", "wall_collision"}

(* reset() called directly: a callback that is registered stays registered *)
Reset ==
    /\ \E rs \in [1 .. 3 -> Rand] : SetEngine(reset(currentDifficulty, rs))
    /\ diffChanges' = 0
    /\ UNCHANGED <<currentDifficulty, rafPending>>

(* endGame(reason) called directly *)
EndGame ==
    /\ \E reason \in Reasons :
         SetEngine(endGame(Engine, reason, currentDifficulty))
    /\ UNCHANGED <<currentDifficulty, rafPending, diffChanges>>

(* checkCollisions() called directly *)
CheckCollisions ==
    /\ SetEngine(checkCollisions(Engine, currentDifficulty))
    /\ UNCHANGED <<currentDifficulty, rafPending, diffChanges>>

(* gameLoop() called directly: update, and one more callback registered if
   the game is still running *)
GameLoopCall ==
    /\ \E r \in Draws(Engine, currentDifficulty) :
         LET e == update(Engine, currentDifficulty, r)
         IN  /\ SetEngine(e)
             /\ rafPending' = IF e.gameRunning THEN rafPending + 1 ELSE rafPending
    /\ UNCHANGED <<currentDifficulty, diffChanges>>

ApiTickAllowed == gameRunning => ticks < ApiTicks

ApiCallAllowed == gameRunning => ticks % JumpEvery = 1

ApiUpdate ==
    /\ ApiTickAllowed
    /\ Update

ApiLoop ==
    /\ ApiTickAllowed
    /\ GameLoop

ApiReset ==
    /\ ApiCallAllowed
    /\ Reset

ApiEndGame ==
    /\ ApiCallAllowed
    /\ Len(notified) < MaxNotified
    /\ EndGame

ApiCheckCollisions ==
    /\ ApiCallAllowed
    /\ Len(notified) < MaxNotified
    /\ CheckCollisions

ApiGameLoopCall ==
    /\ ApiCallAllowed
    /\ ApiTickAllowed
    /\ rafPending < MaxLoops
    /\ GameLoopCall

NextApi ==
    \/ Start
    \/ Jump
    \/ SetDifficulty
    \/ ApiUpdate
    \/ ApiLoop
    \/ ApiReset
    \/ ApiEndGame
    \/ ApiCheckCollisions
    \/ ApiGameLoopCall

SpecApi == Init /\ [][NextApi]_vars

----------------------------------------------------------------------------
(* The run state of the specification, read off the engine's fields *)
RunState ==
    IF gameRunning THEN "running"
    ELSE IF gameStartTime = "null" THEN "idle"
    ELSE "ended"

(* A step in which update() runs on a running game, read off the history:
   only the part of update() after the guard counts a tick, and start()
   leaves the count at 1 *)
TickStep == gameRunning /\ ticks' = ticks + 1

TypeOK ==
    /\ ghosty.y.t \in Int /\ ghosty.y.e \in Int
    /\ ghosty.velocity.t \in Int /\ ghosty.velocity.e \in Int
    /\ score \in Nat
    /\ gameRunning \in BOOLEAN
    /\ gameStartTime \in {"null", "set"}
    /\ currentDifficulty \in Difficulties
    /\ rafPending \in 0 .. MaxLoops
    /\ Len(walls) = Len(wallIds)

----------------------------------------------------------------------------
(* C1: the run state becomes ended only in a step in which update() runs
   on a running game and the positions it leaves collide; from ended, no
   jump(), update() or setDifficulty() makes the game running again: a step
   from ended to running is a start(). *)
C1_EndedOnlyByCollisionUntilStart ==
    [][/\ (RunState' = "ended" /\ RunState # "ended") =>
            /\ RunState = "running"
            /\ Update \/ GameLoop
            /\ BoundaryHit(ghosty') \/ WallHit(ghosty', walls')
       /\ (RunState = "ended" /\ RunState' # "ended") =>
            /\ Start
            /\ RunState' = "running"]_vars

C1_Witness ==
    /\ RunState = "ended"
    /\ WallHit(ghosty, walls)
    /\ rafPending = 0
    /\ diffChanges = 1

(* C2, as claimed: when start() returns the game is running with score 0,
   the avatar at (100, 300) with velocity 0 and the walls freshly seeded,
   none passed. *)
C2_Original ==
    [][Start =>
         /\ gameRunning'
         /\ score' = 0
         /\ ghosty'.x = 1000 /\ ghosty'.y = Dbl(3000) /\ ghosty'.velocity = Dbl(0)
         /\ Len(walls') = 3
         /\ \A i \in 1 .. 3 :
              /\ walls'[i].x = 8000 + (i - 1) * 3000
              /\ ~walls'[i].passed]_vars

(* C2, amended: when start() returns, from any run state, the game is
   running with score 0 and the freshly reset state has been advanced by the
   one tick that start() performs through gameLoop(): the avatar is at x = 100
   with velocity = gravity and y = 300 + gravity, and the sequence holds the
   three fresh walls, none passed, each one wallSpeed to the left of its seed
   position 800, 1100, 1400, with the gap of the active difficulty. *)
C2_StartLeavesFirstTick ==
    [][Start =>
         LET settings == difficulties[currentDifficulty]
         IN  /\ gameRunning'
             /\ gameStartTime' = "set"
             /\ score' = 0
             /\ ghosty' = [x |-> 1000, y |-> Dbl(3000 + settings.gravity),
                           width |-> 400, height |-> 400,
                           velocity |-> Dbl(settings.gravity)]
             /\ Len(walls') = 3
             /\ \A i \in 1 .. 3 :
                  /\ walls'[i].x = 8000 + (i - 1) * 3000 - settings.wallSpeed
                  /\ ~walls'[i].passed
                  /\ walls'[i].bottomY - walls'[i].topHeight = settings.wallGap
             /\ currentDifficulty' = currentDifficulty]_vars

(* a restart of a run that was running: two loops are registered *)
C2_Witness ==
    /\ gameRunning
    /\ ticks = 1
    /\ rafPending = 2
    /\ currentDifficulty = "hard"

(* C3: jump() on a running game sets the velocity to the jump power of the
   active difficulty and changes nothing else; on a game that is not running
   it changes nothing. *)
C3_JumpOverwritesVelocityOnly ==
    [][Jump =>
         IF gameRunning
         THEN /\ ghosty' = [ghosty EXCEPT
                              !.velocity = Dbl(difficulties[currentDifficulty].jumpPower)]
              /\ UNCHANGED <<walls, score, gameRunning, gameStartTime,
                             currentDifficulty, rafPending, wallIds>>
         ELSE UNCHANGED vars]_vars

C3_Witness ==
    /\ gameRunning
    /\ ticks > 1
    /\ ticks % JumpEvery = 1
    /\ ghosty.velocity = Dbl(difficulties[currentDifficulty].jumpPower)

(* C4: update() on a game that is not running (idle or ended) changes
   neither the avatar, nor the walls, nor the score, nor the run state,
   whichever way update() is reached and whichever way the game came to be
   not running. *)
C4_UpdateNoOpWhenNotRunning ==
    [][(~gameRunning /\ (Update \/ GameLoop \/ GameLoopCall)) =>
         UNCHANGED <<ghosty, walls, score, gameRunning, gameStartTime,
                     currentDifficulty, wallIds, ticks>>]_vars

(* the callback of an ended run has run update() and was not registered again *)
C4_Witness ==
    /\ RunState = "ended"
    /\ rafPending = 0
    /\ BoundaryHit(ghosty)

(* C5, as stated: a running tick adds gravity to the velocity and then the
   new velocity to y; on medium, one tick after the reset state gives
   v = 0.4, y = 300.4, and a jump() followed by one more tick gives v = -6.6,
   y = 293.8. *)
C5_Original ==
    /\ [][TickStep =>
            LET settings == difficulties[currentDifficulty]
            IN  /\ ghosty'.velocity = DAdd(ghosty.velocity, Dbl(settings.gravity))
                /\ ghosty'.y = DAdd(ghosty.y, ghosty'.velocity)
                /\ ghosty'.x = ghosty.x]_vars
    /\ []((currentDifficulty = "medium" /\ ticks = 1) =>
            /\ ghosty.y = Dbl(3004)
            /\ ghosty.velocity \in {Dbl(4), Dbl(-70)})
    /\ []((currentDifficulty = "medium" /\ ticks = 2 /\ IsNegative(ghosty.velocity)) =>
            /\ ghosty.velocity = Dbl(-66)
            /\ ghosty.y = Dbl(2938))

(* C5, amended: a running tick adds gravity to the velocity and then the new
   velocity to y, each sum rounded to the nearest binary64 number; on medium,
   one tick after the reset state gives v = 0.4, y = 300.4, and a jump()
   followed by one more tick gives v = -6.6 and y = 293.79999999999995, the
   binary64 number next below 293.8 (2^-44 less), which is within 2^-44 of
   the decimal sum. *)
C5_GravityThenPosition ==
    /\ [][TickStep =>
            LET settings == difficulties[currentDifficulty]
            IN  /\ ghosty'.velocity = DAdd(ghosty.velocity, Dbl(settings.gravity))
                /\ ghosty'.y = DAdd(ghosty.y, ghosty'.velocity)
                /\ ghosty'.x = ghosty.x]_vars
    /\ []((currentDifficulty = "medium" /\ ticks = 1) =>
            /\ ghosty.y = Dbl(3004)
            /\ ghosty.velocity \in {Dbl(4), Dbl(-70)})
    /\ []((currentDifficulty = "medium" /\ ticks = 2 /\ IsNegative(ghosty.velocity)) =>
            /\ ghosty.velocity = Dbl(-66)
            /\ ghosty.y = [Dbl(2938) EXCEPT !.e = @ - 10 * Pow2(10)])

C5_Witness ==
    /\ currentDifficulty = "medium"
    /\ ticks = 2
    /\ ghosty.velocity = Dbl(-66)
    /\ ghosty.y.t = 2938
    /\ ghosty.y # Dbl(2938)

(* C6: a running tick ends the run exactly when, on the positions it leaves,
   y + height > field height, or y < 0, or some wall overlaps the avatar
   horizontally while y < gapTop or y + height > gapBottom. *)
C6_EndsIffCollision ==
    [][TickStep =>
         (~gameRunning' <=>
            \/ DLess(Exact(6000), Bottom(ghosty'))
            \/ IsNegative(ghosty'.y)
            \/ \E i \in 1 .. Len(walls') :
                 /\ ghosty'.x < walls'[i].x + walls'[i].width
                 /\ ghosty'.x + ghosty'.width > walls'[i].x
                 /\ \/ DLess(ghosty'.y, Exact(walls'[i].topHeight))
                    \/ DLess(Exact(walls'[i].bottomY), Bottom(ghosty')))]_vars

(* a run ended on the boundary by less than the rounding of a sum, clear of
   every wall: in decimal arithmetic the avatar would touch the ceiling
   (y = 0) or the ground (y + height = field height) and go on *)
C6_Witness ==
    /\ RunState = "ended"
    /\ ticks > 1
    /\ ~WallHit(ghosty, walls)
    /\ \/ ghosty.y.t = 0 /\ ghosty.y.e < 0
       \/ ghosty.y.t + ghosty.height = canvasHeight /\ ghosty.y.e > 0

(* C7: the score is the number of walls created since the last reset that
   have been marked passed, pruned ones included; a wall in the sequence is
   marked passed exactly when its trailing edge is left of the avatar's x. *)
C7_ScoreCountsPassedWalls ==
    /\ score = Cardinality(passedIds)
    /\ \A i \in 1 .. Len(walls) :
         /\ walls[i].passed <=> walls[i].x + walls[i].width < ghosty.x
         /\ walls[i].passed <=> wallIds[i] \in passedIds
    /\ \A p \in prunedLog : p.passed <=> p.id \in passedIds
    /\ \A id \in passedIds :
         \/ \E i \in 1 .. Len(walls) : wallIds[i] = id
         \/ \E p \in prunedLog : p.id = id

(* a passed wall has been pruned and the run goes on *)
C7_Witness ==
    /\ gameRunning
    /\ score = 1
    /\ prunedLog # {}
    /\ \A i \in 1 .. Len(walls) : ~walls[i].passed

(* C8: the score decreases only in a start() step; it changes only in a
   start() or update() step; a running tick raises it by the number of walls
   newly marked passed in that tick, at most one per wall. *)
C8_ScoreMonotone ==
    [][/\ score' < score => Start
       /\ score' # score => (Start \/ Update \/ GameLoop)
       /\ TickStep =>
            /\ score' - score = Cardinality(passedIds' \ passedIds)
            /\ score' - score <= Len(walls)]_vars

(* a run that scored after a difficulty change and then ended *)
C8_Witness ==
    /\ RunState = "ended"
    /\ score >= 1
    /\ diffChanges = 1

(* C9: every wall spliced out of the sequence was marked passed and is
   counted in the score. *)
C9_PrunedWallsWereScored ==
    /\ \A p \in prunedLog : p.passed /\ p.id \in passedIds
    /\ score >= Cardinality({p.id : p \in prunedLog})

C9_Witness ==
    /\ prunedLog # {}
    /\ Len(walls) = 2

(* C10: while the game is running the wall sequence is not empty. *)
C10_WallsNonEmptyWhileRunning ==
    gameRunning => Len(walls) >= 1

(* a running game after a wall was pruned and a new one added *)
C10_Witness ==
    /\ gameRunning
    /\ prunedLog # {}
    /\ created > 3

----------------------------------------------------------------------------
(* C11, as stated: whenever a tick creates a wall, its distance from the
   wall created before it is one fixed constant, the distance between the
   seeded walls, whatever the active difficulty. *)
C11_Original ==
    [][(TickStep /\ created' = created + 1) =>
          LET n     == Len(walls')
              seeds == SeedWalls(currentDifficulty, [i \in 1 .. 3 |-> 0])
          IN  walls'[n].x - walls'[n - 1].x = seeds[2].x - seeds[1].x]_vars

(* C11, amended: whenever a tick creates a wall, its distance from the wall
   created before it is more than 400 px and at most 400 px plus the wall
   speed of the active difficulty. *)
C11_SpawnSpacingWithinOneStep ==
    [][(TickStep /\ created' = created + 1) =>
          LET n == Len(walls')
              d == walls'[n].x - walls'[n - 1].x
          IN  /\ wallIds'[n] = created + 1
              /\ wallIds'[n - 1] = created
              /\ d > 4000
              /\ d <= 4000 + difficulties[currentDifficulty].wallSpeed]_vars

C11_Witness ==
    /\ created >= 4
    /\ currentDifficulty = "easy"
    /\ diffChanges = 0
    /\ Len(walls) >= 2
    /\ walls[Len(walls)].x = canvasWidth + 1000
    /\ walls[Len(walls)].x - walls[Len(walls) - 1].x = 4020

----------------------------------------------------------------------------
(* C12, as stated: at run start (no tick yet, or only the tick start()
   performs) there are exactly three walls, all ahead of the avatar, and
   consecutive walls are one field width apart. *)
C12_Original ==
    ticks <= 1 =>
        /\ Len(walls) = 3
        /\ \A i \in 1 .. Len(walls) : walls[i].x > ghosty.x + ghosty.width
        /\ \A i \in 1 .. Len(walls) - 1 : walls[i + 1].x - walls[i].x = canvasWidth

(* C12, amended: at run start there are exactly three walls, all ahead of
   the avatar, consecutive walls are 300 px apart, and the first one was
   seeded at the right edge of the field (x = field width). *)
C12_ThreeSeedsEvenlySpaced ==
    ticks <= 1 =>
        /\ Len(walls) = 3
        /\ \A i \in 1 .. Len(walls) : walls[i].x > ghosty.x + ghosty.width
        /\ \A i \in 1 .. Len(walls) - 1 : walls[i + 1].x - walls[i].x = 3000
        /\ walls[1].x = canvasWidth - ticks * difficulties[currentDifficulty].wallSpeed

C12_Witness ==
    /\ gameRunning
    /\ ticks = 1
    /\ currentDifficulty = "hard"
    /\ Len(walls) = 3
    /\ walls[3].x - walls[2].x = 3000
    /\ walls[1].x = canvasWidth - 40

----------------------------------------------------------------------------
(* C13, as stated: in every state every wall's gap (bottomY - topHeight) is
   the gap size of the difficulty that is active now, also after
   setDifficulty() has been called. *)
C13_Original ==
    \A i \in 1 .. Len(walls) :
        walls[i].bottomY - walls[i].topHeight
            = difficulties[currentDifficulty].wallGap

(* C13, amended: every wall's gap is the gap size of the difficulty that was
   active when the wall was created: the constructor's walls have the gap of
   the default difficulty, the walls start() seeds and the wall a tick adds
   have the gap of the difficulty active in that step, and no step changes
   the gap of a wall that stays. *)
C13_GapOfDifficultyAtCreation ==
    /\ \A i \in 1 .. Len(walls) :
          walls[i].bottomY - walls[i].topHeight = difficulties["medium"].wallGap
    /\ [][\A i \in 1 .. Len(walls') :
            LET gap == walls'[i].bottomY - walls'[i].topHeight
            IN  IF Start \/ wallIds'[i] > created
                THEN gap = difficulties[currentDifficulty].wallGap
                ELSE \E j \in 1 .. Len(walls) :
                        /\ wallIds[j] = wallIds'[i]
                        /\ walls[j].bottomY - walls[j].topHeight = gap]_vars

C13_Witness ==
    /\ diffChanges = 1
    /\ created >= 4
    /\ \E i, j \in 1 .. Len(walls) :
          /\ walls[i].bottomY - walls[i].topHeight
                # difficulties[currentDifficulty].wallGap
          /\ wallIds[j] = created
          /\ walls[j].bottomY - walls[j].topHeight
                = difficulties[currentDifficulty].wallGap

----------------------------------------------------------------------------
(* C14: every wall createWall() makes, whatever the random value and the
   difficulty, has its gap at least 50 px below the top of the field and at
   least 50 px above its bottom, bottomY = topHeight + the gap size of a
   difficulty, and is not marked passed; the same holds of the position of
   the gap of every wall in the sequence, and a wall is not marked passed in
   the step that creates it. *)
C14_GapInsideFieldAtCreation ==
    /\ [](/\ \A d \in Difficulties, r \in Rand :
                LET w == createWall(canvasWidth + 1000, d, r)
                IN  /\ w.topHeight >= 500
                    /\ w.topHeight + difficulties[d].wallGap <= canvasHeight - 500
                    /\ w.bottomY = w.topHeight + difficulties[d].wallGap
                    /\ w.passed = FALSE
          /\ \A i \in 1 .. Len(walls) :
                /\ walls[i].topHeight >= 500
                /\ walls[i].bottomY <= canvasHeight - 500
                /\ \E d \in Difficulties :
                      walls[i].bottomY = walls[i].topHeight + difficulties[d].wallGap)
    /\ [][\A i \in 1 .. Len(walls') :
            (Start \/ wallIds'[i] > created) => walls'[i].passed = FALSE]_vars

C14_Witness ==
    /\ currentDifficulty = "hard"
    /\ diffChanges = 0
    /\ \E i \in 1 .. Len(walls) :
          /\ wallIds[i] > 3
          /\ ~walls[i].passed
          /\ walls[i].topHeight
                = ((RandDen - 1) * (canvasHeight - 1200 - 1000)) \div RandDen + 500
          /\ walls[i].bottomY = walls[i].topHeight + 1200

----------------------------------------------------------------------------
(* C15: a step that changes the active difficulty changes nothing else of
   the engine: avatar, walls, score, run state and start time stay as they
   are; and the coefficients of the difficulty active at the time are the
   ones used by every tick (gravity, wall speed, gap of a wall it adds) and
   by every jump on a running game (impulse). *)
C15_SetDifficultyChangesOnlyTheSelection ==
    [][/\ currentDifficulty' # currentDifficulty =>
            UNCHANGED <<ghosty, walls, score, gameRunning, gameStartTime,
                        rafPending, wallIds, passedIds, prunedLog, created,
                        ticks, notified>>
       /\ TickStep =>
            LET settings == difficulties[currentDifficulty]
            IN  /\ ghosty'.velocity = DAdd(ghosty.velocity, Dbl(settings.gravity))
                /\ \A i \in 1 .. Len(walls'), j \in 1 .. Len(walls) :
                      wallIds'[i] = wallIds[j] =>
                          walls'[i].x = walls[j].x - settings.wallSpeed
                /\ \A i \in 1 .. Len(walls') :
                      wallIds'[i] > created =>
                          walls'[i].bottomY - walls'[i].topHeight = settings.wallGap
       /\ (gameRunning /\ Jump) =>
            ghosty'.velocity = Dbl(difficulties[currentDifficulty].jumpPower)]_vars

C15_Witness ==
    /\ gameRunning
    /\ diffChanges = 1
    /\ ticks > DiffEvery
    /\ ghosty.velocity = DAdd(Dbl(difficulties[currentDifficulty].jumpPower),
                            Dbl(difficulties[currentDifficulty].gravity))
    /\ \E i \in 1 .. Len(walls) :
          walls[i].bottomY - walls[i].topHeight
              # difficulties[currentDifficulty].wallGap

----------------------------------------------------------------------------
(* C16: the tick that ends the run has done everything a tick does: the
   avatar has gravity added to its velocity and the new velocity added to
   its position, every wall has moved left by the wall speed, every wall
   that thereby got behind the avatar is marked passed and counted in the
   score, no wall that is off screen is left, a wall is added if the last
   one is further left than width - 300, and the collision is one of the
   positions after all that. *)
C16_CollidingTickIsAFullTick ==
    [][(TickStep /\ ~gameRunning') =>
          LET settings == difficulties[currentDifficulty]
              last     == walls[Len(walls)].x - settings.wallSpeed
          IN  /\ ghosty'.velocity = DAdd(ghosty.velocity, Dbl(settings.gravity))
              /\ ghosty'.y = DAdd(ghosty.y, ghosty'.velocity)
              /\ \A j \in 1 .. Len(walls) :
                    IF walls[j].x - settings.wallSpeed + walls[j].width < 0
                    THEN \A i \in 1 .. Len(walls') : wallIds'[i] # wallIds[j]
                    ELSE \E i \in 1 .. Len(walls') :
                           /\ wallIds'[i] = wallIds[j]
                           /\ walls'[i].x = walls[j].x - settings.wallSpeed
                           /\ walls'[i].passed =
                                 (walls[j].passed
                                    \/ walls'[i].x + walls'[i].width < ghosty.x)
              /\ score' = score + Cardinality(passedIds' \ passedIds)
              /\ passedIds' \ passedIds =
                    {wallIds[j] : j \in
                        {k \in 1 .. Len(walls) :
                            /\ ~walls[k].passed
                            /\ walls[k].x - settings.wallSpeed + walls[k].width
                                  < ghosty.x}}
              /\ created' = IF last < canvasWidth - 3000 THEN created + 1 ELSE created
              /\ Len(walls') > 0
              /\ walls'[Len(walls')].x =
                    IF last < canvasWidth - 3000 THEN canvasWidth + 1000 ELSE last
              /\ BoundaryHit(ghosty') \/ WallHit(ghosty', walls')]_vars

(* the run has ended on a wall that reached the avatar only by the move of
   the last tick, and the avatar was inside the field *)
C16_Witness ==
    /\ ~gameRunning
    /\ gameStartTime = "set"
    /\ ~BoundaryHit(ghosty)
    /\ \E i \in 1 .. Len(walls) :
          /\ walls[i].x < ghosty.x + ghosty.width
          /\ walls[i].x + difficulties[currentDifficulty].wallSpeed
                >= ghosty.x + ghosty.width
          /\ \/ DLess(ghosty.y, Exact(walls[i].topHeight))
             \/ DLess(Exact(walls[i].bottomY), Bottom(ghosty))

----------------------------------------------------------------------------
(* C17: in the tick that ends the run the reason sent out is the boundary
   reason whenever the avatar is outside the field, also when it overlaps a
   wall outside its gap at the same time, and the wall reason only when the
   avatar is inside the field and overlaps a wall outside its gap; and the
   fields endGame() leaves are the same whichever reason it is given. *)
C17_BoundaryReasonFirst ==
    [][(TickStep /\ ~gameRunning') =>
          LET before == [Engine' EXCEPT !.gameRunning = TRUE, !.notified = <<>>]
              out(reason) == endGame(before, reason, currentDifficulty)
          IN  /\ Len(notified') = 3
              /\ notified'[2].kind = "game_over"
              /\ BoundaryHit(ghosty') =>
                    notified'[2].reason = "boundary_collision"
              /\ ~BoundaryHit(ghosty') =>
                    /\ notified'[2].reason = "wall_collision"
                    /\ WallHit(ghosty', walls')
              /\ \A reason \in {"boundary_collision", "wall_collision"} :
                    /\ [out(reason) EXCEPT !.notified = <<>>]
                         = [Engine' EXCEPT !.notified = <<>>]
                    /\ out(reason).notified[1] = notified'[1]
                    /\ out(reason).notified[3] = notified'[3]]_vars

C17_Witness ==
    /\ ~gameRunning
    /\ BoundaryHit(ghosty)
    /\ WallHit(ghosty, walls)
    /\ Len(notified) = 3
    /\ notified[2].reason = "boundary_collision"

----------------------------------------------------------------------------
(* C18, as stated: nothing is sent out while the game is idle or running,
   and once a run has ended exactly one of the notifications sent for it
   carries the final score, the difficulty, the collision reason and the
   duration of the run together. *)
C18_Original ==
    /\ RunState # "ended" => notified = <<>>
    /\ RunState = "ended" =>
          Cardinality({i \in 1 .. Len(notified) :
              /\ {"score", "final_score"} \cap DOMAIN notified[i] # {}
              /\ "difficulty" \in DOMAIN notified[i]
              /\ "reason" \in DOMAIN notified[i]
              /\ {"duration", "duration_ms"} \cap DOMAIN notified[i] # {}}) = 1

(* C18, amended: nothing is sent out while the game is idle or running; the
   tick that ends a run sends, once, the game-end telemetry record (score,
   difficulty, duration), the game_over telemetry record (reason, score,
   duration) and the gameOver window event (score and difficulty only), with
   the score and the difficulty of that tick and the duration measured from
   the start of the run; after that nothing is sent, and what was sent stays
   as it is, until start() is called. *)
C18_RunEndSentOnce ==
    /\ [](/\ RunState # "ended" => notified = <<>>
          /\ RunState = "ended" =>
                /\ Len(notified) = 3
                /\ notified[1].score = score
                /\ notified[2].final_score = score
                /\ notified[3].score = score)
    /\ [][/\ (TickStep /\ ~gameRunning') =>
               notified' =
                 <<[kind |-> "logGameEnd", score |-> score',
                    difficulty |-> currentDifficulty, duration |-> "since_start"],
                   [kind |-> "game_over",
                    reason |-> IF BoundaryHit(ghosty') THEN "boundary_collision"
                               ELSE "wall_collision",
                    final_score |-> score', duration_ms |-> "since_start"],
                   [kind |-> "gameOver", score |-> score',
                    difficulty |-> currentDifficulty]>>
          /\ notified' # notified =>
               \/ TickStep /\ ~gameRunning' /\ notified = <<>>
               \/ Start /\ notified' = <<>>]_vars

C18_Witness ==
    /\ RunState = "ended"
    /\ score >= 1
    /\ rafPending = 0
    /\ Len(notified) = 3
    /\ notified[3] = [kind |-> "gameOver", score |-> score, difficulty |-> "hard"]
    /\ notified[2].reason = "wall_collision"
    /\ currentDifficulty # "hard"

----------------------------------------------------------------------------
(* C20: a tick adds at most one wall; it adds one, at the end of the
   sequence and at x = width + 100, exactly when the last wall, after the
   move of this tick, is further left than width - 300; and in every state
   the last wall is the rightmost one and is at width - 300 or further
   right. *)
C20_OneSpawnWhenLastWallIsInside ==
    /\ [](/\ Len(walls) > 0
          /\ \A i \in 1 .. Len(walls) : walls[i].x <= walls[Len(walls)].x
          /\ walls[Len(walls)].x >= canvasWidth - 3000)
    /\ [][TickStep =>
            LET last  == walls[Len(walls)].x
                          - difficulties[currentDifficulty].wallSpeed
                fresh == {i \in 1 .. Len(walls') : wallIds'[i] > created}
            IN  /\ Cardinality(fresh) <= 1
                /\ created' = created + Cardinality(fresh)
                /\ fresh # {} <=> last < canvasWidth - 3000
                /\ fresh # {} =>
                      /\ fresh = {Len(walls')}
                      /\ walls'[Len(walls')].x = canvasWidth + 1000
                /\ fresh = {} => walls'[Len(walls')].x = last]_vars

C20_Witness ==
    /\ gameRunning
    /\ created >= 5
    /\ Len(walls) >= 2
    /\ walls[Len(walls)].x = canvasWidth + 1000
    /\ wallIds[Len(walls)] = created
    /\ walls[Len(walls) - 1].x < canvasWidth - 3000
    /\ walls[Len(walls) - 1].x
          + difficulties[currentDifficulty].wallSpeed >= canvasWidth - 3000

----------------------------------------------------------------------------
(* C21: in every state no wall has its trailing edge (x + width) left of 0,
   and the walls are in creation order and strictly increasing in x from
   first to last; a tick removes exactly the walls whose trailing edge gets
   left of 0 and leaves the others in the order they had. *)
C21_PrunedAndOrdered ==
    /\ [](/\ \A i \in 1 .. Len(walls) : walls[i].x + walls[i].width >= 0
          /\ \A i \in 1 .. Len(walls) - 1 :
                /\ walls[i].x < walls[i + 1].x
                /\ wallIds[i] < wallIds[i + 1])
    /\ [][TickStep =>
            LET speed == difficulties[currentDifficulty].wallSpeed
                stays == {j \in 1 .. Len(walls) :
                             walls[j].x - speed + walls[j].width >= 0}
            IN  /\ {wallIds'[i] : i \in 1 .. Len(walls')} \cap
                      {wallIds[j] : j \in 1 .. Len(walls)}
                     = {wallIds[j] : j \in stays}
                /\ \A i, k \in 1 .. Len(walls'), j, l \in stays :
                      (wallIds'[i] = wallIds[j] /\ wallIds'[k] = wallIds[l])
                          => (i < k <=> j < l)]_vars

(* a wall has been removed and at least two walls are left, the run going on *)
C21_Witness ==
    /\ gameRunning
    /\ prunedLog # {}
    /\ Len(walls) >= 2
    /\ wallIds[1] >= 2
    /\ walls[1].x < walls[2].x

----------------------------------------------------------------------------
(* C22: a tick moves every wall that stays in the sequence left by exactly
   the wall speed of the active difficulty, also when it removes another
   wall, so the distance between two walls that stay does not change, and
   it leaves their gap and width as they are; a step that is neither a tick
   nor a start() leaves the walls as they are. *)
C22_EveryWallMovesOncePerTick ==
    [][/\ TickStep =>
            LET speed == difficulties[currentDifficulty].wallSpeed
            IN  /\ \A j \in 1 .. Len(walls) :
                      walls[j].x - speed + walls[j].width >= 0 =>
                        \E i \in 1 .. Len(walls') :
                          /\ wallIds'[i] = wallIds[j]
                          /\ walls'[i].x = walls[j].x - speed
                          /\ walls'[i].topHeight = walls[j].topHeight
                          /\ walls'[i].bottomY = walls[j].bottomY
                          /\ walls'[i].bottomHeight = walls[j].bottomHeight
                          /\ walls'[i].width = walls[j].width
                /\ \A i, k \in 1 .. Len(walls'), j, l \in 1 .. Len(walls) :
                      (wallIds'[i] = wallIds[j] /\ wallIds'[k] = wallIds[l]) =>
                          walls'[k].x - walls'[i].x = walls[l].x - walls[j].x
       /\ walls' # walls => (TickStep \/ Start)]_vars

(* on hard, unchanged since the start: the first seed is gone and the second
   and third are where one move per tick puts them *)
C22_Witness ==
    /\ gameRunning
    /\ currentDifficulty = "hard"
    /\ diffChanges = 0
    /\ Len(walls) >= 2
    /\ wallIds[1] = 2
    /\ wallIds[2] = 3
    /\ walls[1].x = 11000 - 40 * ticks
    /\ walls[2].x = 14000 - 40 * ticks

----------------------------------------------------------------------------
(* C23, as stated: at any moment at most one gameLoop() callback is
   registered for the next animation frame, also after start() has been
   called on a running game. *)
C23_AtMostOneLoop ==
    rafPending <= 1

----------------------------------------------------------------------------
(* C24: in every state in which the game is running the avatar is inside
   the field (y >= 0 and y + height <= field height) and, for every wall it
   overlaps horizontally, inside that wall's gap (y >= topHeight and
   y + height <= bottomY). *)
C24_RunningAvatarIsClear ==
    gameRunning =>
        /\ ~IsNegative(ghosty.y)
        /\ ~DLess(Exact(canvasHeight), Bottom(ghosty))
        /\ \A i \in 1 .. Len(walls) :
              (ghosty.x < walls[i].x + walls[i].width
                 /\ ghosty.x + ghosty.width > walls[i].x) =>
                  /\ ~DLess(ghosty.y, Exact(walls[i].topHeight))
                  /\ ~DLess(Exact(walls[i].bottomY), Bottom(ghosty))

(* the game is running with the avatar between the two parts of a wall *)
C24_Witness ==
    /\ gameRunning
    /\ \E i \in 1 .. Len(walls) :
          /\ ghosty.x < walls[i].x + walls[i].width
          /\ ghosty.x + ghosty.width > walls[i].x
          /\ ~DLess(ghosty.y, Exact(walls[i].topHeight))
          /\ ~DLess(Exact(walls[i].bottomY), Bottom(ghosty))
          /\ walls[i].topHeight > 500

----------------------------------------------------------------------------
(* C25: once the player has stopped pressing and the frames keep coming, a
   running game ends, and it does so before the environment stops following
   it; a game that is not running registers no callback unless start() is
   called, and the callbacks still registered when it ended run out. *)
C25_UnattendedRunEnds ==
    /\ gameRunning ~> ~gameRunning
    /\ [](gameRunning => ticks < LiveTicks)
    /\ (RunState = "ended") ~> (rafPending = 0 \/ gameRunning)
    /\ [][(~gameRunning /\ rafPending' > rafPending) => Start]_vars

(* the run has ended, after the last press, falling, and no callback is left *)
C25_Witness ==
    /\ RunState = "ended"
    /\ ticks > LiveJumpUntil
    /\ DLess(Exact(0), ghosty.velocity)
    /\ rafPending = 0

----------------------------------------------------------------------------
(* C26: on the 800 px wide field the sequence of walls never holds more
   than three walls. *)
C26_AtMostThreeWalls ==
    Len(walls) <= 3

(* three walls are held after three walls have been added and three
   removed *)
C26_Witness ==
    /\ gameRunning
    /\ created >= 6
    /\ Cardinality(prunedLog) >= 3
    /\ Len(walls) = 3
    /\ walls[3].x = canvasWidth + 1000
====
